---- MODULE Spec2Model ----
(***************************************************************************)
(* Model of the uploads agent (server/libs/uploads-agent.js): the initial  *)
(* scan of the uploads tree, the chokidar watcher it hands off to, and the *)
(* per-file processor both of them use.                                    *)
(*                                                                         *)
(* Modelling conventions                                                   *)
(*  - a file name is a string; a relative path is the sequence of its      *)
(*    segments (<<"x.png">> or <<"a", "x.png">>);                          *)
(*  - the md5 digest of a string is written "md5:" \o string (the digest   *)
(*    is taken to be collision free);                                      *)
(*  - a value returned by processFile is tagged: "record" (mData),         *)
(*    "false" (not a regular file) and "undefined" (the value of           *)
(*    winston.error(...) returned from the catch block; the level methods  *)
(*    of the winston 2 default logger return nothing);                     *)
(*  - a collection of the catalog is the set of its documents; a failed    *)
(*    catalog call is a choice of the environment at the call;             *)
(*  - every await is a step of its own where the interleaving matters      *)
(*    (the scan's catalog calls, the folder and file mappers of            *)
(*    Promise.map, the stages of the watcher's promise chain); the awaits  *)
(*    inside one processFile call are taken together.                      *)
(***************************************************************************)
EXTENDS Integers, Sequences, FiniteSets, TLC

----------------------------------------------------------------------------
(* Bounds of the model *)

\* number of changes the environment makes to the uploads tree during a run
MaxFsOps == 2
\* number of regular entries the uploads tree holds when the scan starts
MaxFiles == 2
\* number of direct processFile calls of the processor harness (SpecPF)
MaxCalls == 2

\* first-level directories that may exist under the uploads root
DirNames == {"a", "b"}
\* entry names used inside the root and the first-level directories
Names == {"x.png", "y.txt"}
Folders == {""} \cup DirNames
\* the (folder, filename) pairs at which a file may live
Slots == Folders \X Names

----------------------------------------------------------------------------
(* Program constants *)

\* size limit of an image (uploads-agent.js:193)
MaxImageSize == 3145728
ImageMimes == {"image/png", "image/jpeg", "image/gif", "image/bmp"}

----------------------------------------------------------------------------
(* The file system as the agent sees it *)

NoFile == [type |-> "none"]
DirEntry == [type |-> "dir", magic |-> "none", size |-> 4096, hdr |-> FALSE, dec |-> FALSE]

\* what one entry of the tree holds: the type stat reports, the MIME type
\* the first 262 bytes sniff to ("none": no match), the size, the
\* dimensions in the image header (hdr: image-size can read them) and
\* whether jimp can decode the body (dec)
File(magic, size, hdr, dec) ==
    [type |-> "file", magic |-> magic, size |-> size, hdr |-> hdr, dec |-> dec]

\* the dimensions image-size reads from a header (here a function of the size)
Dims(c) == [width |-> (c.size % 7) + 1, height |-> (c.size % 5) + 1]

PngA == File("image/png", MaxImageSize - 1, TRUE, TRUE)
PngB == File("image/png", 2048, TRUE, TRUE)
BigPng == File("image/png", MaxImageSize, TRUE, TRUE)
Text == File("none", 10, FALSE, FALSE)
Special == [type |-> "other", magic |-> "none", size |-> 0, hdr |-> FALSE, dec |-> FALSE]


\* path.parse(f).ext and path.parse(f).name of the entry names in use
PathExt(f) == CASE f = "x.png" -> ".png"
                [] f = "y.txt" -> ".txt"
                [] OTHER -> ""
PathName(f) == CASE f = "x.png" -> "x"
                 [] f = "y.txt" -> "y"
                 [] OTHER -> f

\* mime.lookup(ext): the extension table, false ("none") when unknown
MimeLookup(ext) == CASE ext = ".png" -> "image/png"
                     [] ext = ".txt" -> "text/plain"
                     [] OTHER -> "none"

\* crypto.createHash('md5').update(fldName + '/' + f).digest('hex')
identify(fldName, f) == "md5:" \o fldName \o "/" \o f

\* the relative path chokidar reports for an entry (cwd: uploads root)
RelPath(fldName, f) == IF fldName = "" THEN <<f>> ELSE <<fldName, f>>

\* parseUploadsRelPath: path.parse(f).dir and path.parse(f).base
parseUploadsRelPath(p) ==
    [folder |-> IF Len(p) = 1 THEN "" ELSE p[1], filename |-> p[Len(p)]]

----------------------------------------------------------------------------
(* State *)

VARIABLES
    fs,           \* the entries of the uploads tree: Slots -> content or NoFile
    dirs,         \* first-level directories: "none", "ok" or "noread" (readdir fails)
    rootOk,       \* whether the uploads root can be listed
    thumbs,       \* the thumbnail cache: identifier -> entry at <thumbs>/<id>.png
    UplFolder,    \* the Folder collection (db.UplFolder), a set of documents
    UplFile,      \* the FileRecord collection (db.UplFile), a set of documents
    log,          \* messages given to winston.error
    pc,           \* position of initialScan
    ls,           \* initialScan: the listing of the uploads root
    folderNames,  \* initialScan: the folder candidates
    fldTask,      \* initialScan: state of the mapper of each folder
    pending,      \* initialScan: (folder, entry) pairs whose mapper has started
    allFiles,     \* initialScan: the accumulated records
    scanRes,      \* initialScan: what processFile returned to each file mapper
    watching,     \* whether watch() has subscribed the handlers
    events,       \* chokidar events emitted and not yet handled
    handlers,     \* "add" handlers between two steps of their promise chain
    history,      \* calls of git.commitUploads, in order
    settled,      \* "add" handlers whose promise chain has settled
    upserts,      \* calls of db.UplFile.findByIdAndUpdate issued so far
    fsOps,        \* number of changes made to the tree so far
    calls         \* processor harness: the processFile calls made, in order

vars == <<fs, dirs, rootOk, thumbs, UplFolder, UplFile, log, pc, ls, folderNames,
          fldTask, pending, allFiles, scanRes, watching, events, handlers,
          history, settled, upserts, fsOps, calls>>

fsVars == <<fs, dirs, rootOk, fsOps>>
scanVars == <<pc, ls, folderNames, fldTask, pending, allFiles, scanRes>>
watchVars == <<watching, events, handlers, history, settled, upserts>>

ThumbIds == {identify(s[1], s[2]) : s \in Slots}
NoThumb == [st |-> "absent"]

----------------------------------------------------------------------------
(* processFile and what it calls *)

\* whether a folder exists / can be listed (the root is folder "")
FolderExists(fldName) == IF fldName = "" THEN TRUE ELSE dirs[fldName] # "none"
FolderListable(fldName) == IF fldName = "" THEN rootOk ELSE dirs[fldName] = "ok"

\* fs.statAsync(path.join(uploads, fldName, f)): the entry, NoFile on ENOENT
statAsync(fldName, f) ==
    IF fldName = "" /\ f \in DirNames
    THEN IF dirs[f] = "none" THEN NoFile ELSE DirEntry
    ELSE IF <<fldName, f>> \in Slots /\ FolderExists(fldName)
         THEN fs[<<fldName, f>>]
         ELSE NoFile

\* fileType(readChunk.sync(...)), else mime.lookup(ext), else octet-stream
classify(s, f) ==
    IF s.magic # "none" THEN s.magic
    ELSE IF MimeLookup(PathExt(f)) # "none" THEN MimeLookup(PathExt(f))
    ELSE "application/octet-stream"

\* s.isFile(), true of every entry that exists
isFileAny(s) == s.type # "none"
\* s.isFile(): the entry is a regular file
isFile(s) == s.type = "file"

\* the test that guards the image branch, with the size limit made inclusive
IsImageLe(size, mime) == size <= MaxImageSize /\ mime \in ImageMimes
\* the test that guards the image branch
IsImage(size, mime) == size < MaxImageSize /\ mime \in ImageMimes

\* thumbExists, never finding the cached thumbnail
thumbExistsNever(fUid) == FALSE
\* thumbExists: stat of the cache path succeeds and reports a file
thumbExists(fUid) == thumbs[fUid].st # "absent"

\* the catch block of processFile, rethrowing instead
processFileRethrow == [tag |-> "rejected"]
\* the catch block of processFile: logs and returns winston.error's value
processFileCatch == [tag |-> "undefined"]

\* outcomes of the write of the thumbnail that the environment decides:
\* written, failed leaving a partial file, failed leaving nothing
WriteOutcomes == {"ok", "partial", "nofile"}

\* generateThumbnail swallowing the error of a write that left no file
generateThumbnailSwallow(s, fUid, wr) ==
    IF ~s.dec
    THEN [thumbs |-> thumbs, threw |-> TRUE]
    ELSE IF wr = "ok"
    THEN [thumbs |-> [thumbs EXCEPT ![fUid] = [st |-> "whole", src |-> s]],
          threw |-> FALSE]
    ELSE IF wr = "partial"
    THEN [thumbs |-> [thumbs EXCEPT ![fUid] = [st |-> "partial", src |-> s]],
          threw |-> TRUE]
    ELSE [thumbs |-> thumbs, threw |-> FALSE]
\* generateThumbnail(fPath, cacheThumbnailPathStr): the cache afterwards and
\* whether it threw
generateThumbnail(s, fUid, wr) ==
    IF ~s.dec
    THEN [thumbs |-> thumbs, threw |-> TRUE]
    ELSE IF wr = "ok"
    THEN [thumbs |-> [thumbs EXCEPT ![fUid] = [st |-> "whole", src |-> s]],
          threw |-> FALSE]
    ELSE IF wr = "partial"
    THEN [thumbs |-> [thumbs EXCEPT ![fUid] = [st |-> "partial", src |-> s]],
          threw |-> TRUE]
    ELSE [thumbs |-> thumbs, threw |-> TRUE]

\* processFile(fldName, f): the value returned (res), the cache afterwards,
\* the errors logged and whether generateThumbnail was invoked (gen)
processFile(fldName, f, wr) ==
    LET s == statAsync(fldName, f)
        fUid == identify(fldName, f)
        caught(th, msgs, g) ==
            [res |-> processFileCatch, thumbs |-> th,
             log |-> msgs \cup {"Error processing file"}, gen |-> g]
    IN  IF s.type = "none" THEN caught(thumbs, {}, FALSE)
        ELSE IF ~isFile(s)
        THEN [res |-> [tag |-> "false"], thumbs |-> thumbs, log |-> {}, gen |-> FALSE]
        ELSE LET mimeInfo == classify(s, f) IN
             IF IsImage(s.size, mimeInfo)
             THEN IF ~s.hdr THEN caught(thumbs, {}, FALSE)
                  ELSE LET mData == [_id |-> fUid, category |-> "image",
                                     mime |-> mimeInfo, extra |-> Dims(s),
                                     folder |-> "f:" \o fldName, filename |-> f,
                                     basename |-> PathName(f), filesize |-> s.size]
                       IN  IF thumbExists(fUid)
                           THEN [res |-> [tag |-> "record", data |-> mData],
                                 thumbs |-> thumbs, log |-> {}, gen |-> FALSE]
                           ELSE LET g == generateThumbnail(s, fUid, wr) IN
                                IF g.threw
                                THEN caught(g.thumbs, {"Unable to generate thumbnail"}, TRUE)
                                ELSE [res |-> [tag |-> "record", data |-> mData],
                                      thumbs |-> g.thumbs, log |-> {}, gen |-> TRUE]
             ELSE [res |-> [tag |-> "record",
                            data |-> [_id |-> fUid, category |-> "binary",
                                      mime |-> mimeInfo, folder |-> "f:" \o fldName,
                                      filename |-> f, basename |-> PathName(f),
                                      filesize |-> s.size]],
                   thumbs |-> thumbs, log |-> {}, gen |-> FALSE]

----------------------------------------------------------------------------
(* The catalog (mongoose models db.UplFolder and db.UplFile) *)

\* a document left in the FileRecord collection by an earlier run
OldFile == [_id |-> identify("old", "gone.bin"), category |-> "binary",
            mime |-> "application/octet-stream", folder |-> "f:old",
            filename |-> "gone.bin", basename |-> "gone", filesize |-> 1]
\* a document left in the Folder collection by an earlier run
OldFolder == [_id |-> "f:old", name |-> "old"]

\* the _id under which an update with an undefined id is stored
NullDoc == [_id |-> "null"]

\* Model.remove({}), leaving the documents in place
removeNothing(coll) == coll
\* Model.remove({}): every document of the collection is deleted
removeAll(coll) == {}

\* Model.insertMany(docs)
insertMany(coll, docs) == coll \cup docs

\* findByIdAndUpdate with upsert, inserting without looking for the id
findByIdAndInsert(coll, id, doc) == coll \cup {doc}
\* Model.findByIdAndUpdate(id, doc, { upsert: true })
findByIdAndUpdate(coll, id, doc) == {r \in coll : r._id # id} \cup {doc}

----------------------------------------------------------------------------
(* Initial states *)

\* the entries of a folder that readdir returns
Entries(fldName) ==
    {n \in Names : fs[<<fldName, n>>] # NoFile}
        \cup (IF fldName = "" THEN {d \in DirNames : dirs[d] # "none"} ELSE {})

\* the state of the agent before initialScan is called
AgentIdle ==
    /\ thumbs = [i \in ThumbIds |-> NoThumb]
    /\ log = {}
    /\ ls = {} /\ folderNames = {}
    /\ fldTask = [f \in Folders |-> "none"]
    /\ pending = {} /\ allFiles = {} /\ scanRes = {}
    /\ watching = FALSE /\ events = {} /\ handlers = {}
    /\ history = <<>> /\ settled = {} /\ upserts = {}
    /\ fsOps = 0 /\ calls = <<>>

\* the catalog holds the documents of an earlier run
OldCatalog ==
    /\ UplFolder = {OldFolder}
    /\ UplFile = {OldFile}

\* the agent specification starts from a root that holds an image and a
\* first-level directory "a" that holds a text file
Init ==
    /\ rootOk = TRUE
    /\ dirs = [d \in DirNames |-> IF d = "a" THEN "ok" ELSE "none"]
    /\ fs = [s \in Slots |->
               IF s = <<"", "x.png">> THEN PngA
               ELSE IF s = <<"a", "y.txt">> THEN Text
               ELSE NoFile]
    /\ OldCatalog
    /\ pc = "init"
    /\ AgentIdle

\* entries the trees of the scan specification are built from: an image, and
\* a text file (under the name x.png its MIME type comes from the extension
\* and the read of its dimensions fails)
ScanContents == {PngA, Text}

\* the scan specification starts from any uploads tree of at most MaxFiles
\* entries, placed in the root and in the listable first-level directories;
\* directory "a" exists and may be unlistable, directory "b" may exist
InitScan ==
    /\ rootOk \in BOOLEAN
    /\ dirs \in {[d \in DirNames |-> IF d = "a" THEN sa ELSE sb] :
                    sa \in {"ok", "noread"}, sb \in {"none", "ok"}}
    /\ fs \in [Slots -> ScanContents \cup {NoFile}]
    /\ rootOk \/ \A s \in Slots : fs[s] = NoFile
    /\ \A s \in Slots : fs[s] # NoFile => FolderExists(s[1]) /\ FolderListable(s[1])
    /\ Cardinality({s \in Slots : fs[s] # NoFile}) <= MaxFiles
    /\ OldCatalog
    /\ pc = "init"
    /\ AgentIdle

----------------------------------------------------------------------------
(* initialScan *)

Fail(msg) == /\ pc' = "failed"
             /\ log' = log \cup {msg}

\* line 85: the listing of the uploads root; a failure rejects the scan
ScanReadRoot ==
    /\ pc = "init"
    /\ IF rootOk
       THEN /\ ls' = Entries("")
            /\ pc' = "statRoot"
       ELSE /\ pc' = "rejected"
            /\ ls' = ls
    /\ UNCHANGED <<fsVars, thumbs, UplFolder, UplFile, log, folderNames, fldTask,
                   pending, allFiles, scanRes, watchVars, calls>>

\* lines 89-95: stat of every root entry, the directories are the candidates
ScanStatRoot ==
    /\ pc = "statRoot"
    /\ IF \E e \in ls : statAsync("", e).type = "none"
       THEN /\ Fail("Failed during initial scan of uploads")
            /\ folderNames' = folderNames
       ELSE /\ folderNames' = {""} \cup {e \in ls : statAsync("", e).type = "dir"}
            /\ pc' = "removeFolders"
            /\ log' = log
    /\ UNCHANGED <<fsVars, thumbs, UplFolder, UplFile, ls, fldTask,
                   pending, allFiles, scanRes, watchVars, calls>>

\* line 99: db.UplFolder.remove({})
ScanRemoveFolders ==
    /\ pc = "removeFolders"
    /\ \E ok \in BOOLEAN :
          IF ok
          THEN /\ UplFolder' = removeAll(UplFolder)
               /\ pc' = "insertFolders"
               /\ log' = log
          ELSE /\ Fail("Failed during initial scan of uploads")
               /\ UplFolder' = UplFolder
    /\ UNCHANGED <<fsVars, thumbs, UplFile, ls, folderNames, fldTask,
                   pending, allFiles, scanRes, watchVars, calls>>

\* Promise.map starting the mappers without the insert of the folders
ScanInsertFoldersLate ==
    /\ pc = "insertFolders"
    /\ fldTask' = [f \in Folders |-> IF f \in folderNames THEN "list" ELSE "none"]
    /\ pc' = "traverse"
    /\ UNCHANGED <<fsVars, thumbs, UplFolder, UplFile, log, ls, folderNames,
                   pending, allFiles, scanRes, watchVars, calls>>
\* lines 101-110: db.UplFolder.insertMany, then Promise.map starts the
\* mapper of every folder candidate
ScanInsertFolders ==
    /\ pc = "insertFolders"
    /\ \E ok \in BOOLEAN :
          IF ok
          THEN /\ UplFolder' = insertMany(UplFolder,
                                   {[_id |-> "f:" \o f, name |-> f] : f \in folderNames})
               /\ fldTask' = [f \in Folders |->
                                 IF f \in folderNames THEN "list" ELSE "none"]
               /\ pc' = "traverse"
               /\ log' = log
          ELSE /\ Fail("Failed during initial scan of uploads")
               /\ UNCHANGED <<UplFolder, fldTask>>
    /\ UNCHANGED <<fsVars, thumbs, UplFile, ls, folderNames,
                   pending, allFiles, scanRes, watchVars, calls>>

\* lines 111-115: the folder's listing; the mappers of its entries start, or
\* the folder's mapper rejects
ScanListFolder(fldName) ==
    /\ fldTask[fldName] = "list"
    /\ IF FolderListable(fldName)
       THEN /\ pending' = pending \cup {<<fldName, e>> : e \in Entries(fldName)}
            /\ fldTask' = [fldTask EXCEPT ![fldName] =
                              IF Entries(fldName) = {} THEN "done" ELSE "files"]
       ELSE /\ fldTask' = [fldTask EXCEPT ![fldName] = "rejected"]
            /\ pending' = pending
    /\ UNCHANGED <<fsVars, thumbs, UplFolder, UplFile, log, pc, ls, folderNames,
                   allFiles, scanRes, watchVars, calls>>

\* lines 115-123: the mapper of one entry: processFile, then the push
ScanProcessFile(fldName, f) ==
    /\ <<fldName, f>> \in pending
    /\ \E wr \in WriteOutcomes :
          LET r == processFile(fldName, f, wr)
              rest == pending \ {<<fldName, f>>}
          IN  /\ thumbs' = r.thumbs
              /\ log' = log \cup r.log
                            \cup (IF r.res.tag \in {"false", "undefined"}
                                  THEN {"Skipping file"} ELSE {})
              /\ scanRes' = scanRes \cup {[fld |-> fldName, f |-> f, res |-> r.res]}
              /\ allFiles' = IF r.res.tag = "record"
                             THEN allFiles \cup {r.res.data} ELSE allFiles
              /\ pending' = rest
              /\ fldTask' = [fldTask EXCEPT ![fldName] =
                                IF r.res.tag = "rejected" \/ @ = "rejected"
                                THEN "rejected"
                                ELSE IF \E q \in rest : q[1] = fldName
                                THEN @ ELSE "done"]
    /\ UNCHANGED <<fsVars, UplFolder, UplFile, pc, ls, folderNames,
                   watchVars, calls>>

\* lines 110-127: the outer Promise.map settles: it resolves when every
\* folder's mapper has, and rejects as soon as one of them has rejected
ScanTraverseSettle ==
    /\ pc = "traverse"
    /\ \/ /\ \E f \in folderNames : fldTask[f] = "rejected"
          /\ log' = log \cup {"Error during initial scan"}
       \/ /\ \A f \in folderNames : fldTask[f] = "done"
          /\ log' = log
    /\ pc' = "removeFiles"
    /\ UNCHANGED <<fsVars, thumbs, UplFolder, UplFile, ls, folderNames, fldTask,
                   pending, allFiles, scanRes, watchVars, calls>>

\* line 130: db.UplFile.remove({})
ScanRemoveFiles ==
    /\ pc = "removeFiles"
    /\ \E ok \in BOOLEAN :
          IF ok
          THEN /\ UplFile' = removeAll(UplFile)
               /\ pc' = "insertFiles"
               /\ log' = log
          ELSE /\ Fail("Failed during initial scan of uploads")
               /\ UplFile' = UplFile
    /\ UNCHANGED <<fsVars, thumbs, UplFolder, ls, folderNames, fldTask,
                   pending, allFiles, scanRes, watchVars, calls>>

\* lines 131-136: db.UplFile.insertMany(allFiles) when there is a record
ScanInsertFiles ==
    /\ pc = "insertFiles"
    /\ IF allFiles # {}
       THEN \E ok \in BOOLEAN :
               IF ok
               THEN /\ UplFile' = insertMany(UplFile, allFiles)
                    /\ pc' = "startWatch"
                    /\ log' = log
               ELSE /\ Fail("Failed during initial scan of uploads")
                    /\ UplFile' = UplFile
       ELSE /\ pc' = "startWatch"
            /\ UNCHANGED <<UplFile, log>>
    /\ UNCHANGED <<fsVars, thumbs, UplFolder, ls, folderNames, fldTask,
                   pending, allFiles, scanRes, watchVars, calls>>

\* upl.watch() called before the bulk insert of the records
ScanWatchEarly ==
    /\ pc = "insertFiles" /\ ~watching
    /\ watching' = TRUE
    /\ UNCHANGED <<fsVars, thumbs, UplFolder, UplFile, log, scanVars, events,
                   handlers, history, settled, upserts, calls>>
\* line 140: upl.watch() subscribes the handlers
ScanWatch ==
    /\ pc = "startWatch"
    /\ pc' = "done"
    /\ watching' = TRUE
    /\ UNCHANGED <<fsVars, thumbs, UplFolder, UplFile, log, ls, folderNames,
                   fldTask, pending, allFiles, scanRes, events, handlers, history,
                   settled, upserts, calls>>

----------------------------------------------------------------------------
(* watch: the handlers of the chokidar events *)

\* what the store does with findByIdAndUpdate(undefined, false, {upsert}):
\* nothing, a document without fields under the null id, or a rejection
UndefinedIdOutcomes == {"nothing", "nulldoc", "reject"}

\* lines 60-62: an "add" event: the path is parsed and processFile called
WatchAdd(ev) ==
    /\ ev \in events /\ ev.kind = "add"
    /\ LET pInfo == parseUploadsRelPath(ev.p) IN
       \E wr \in WriteOutcomes :
          LET r == processFile(pInfo.folder, pInfo.filename, wr) IN
              /\ thumbs' = r.thumbs
              /\ log' = log \cup r.log
              /\ handlers' = handlers \cup
                     {[n |-> ev.n, p |-> ev.p, res |-> r.res, stage |-> "then"]}
    /\ events' = events \ {ev}
    /\ UNCHANGED <<fsVars, UplFolder, UplFile, scanVars, watching, history,
                   settled, upserts, calls>>

\* lines 62-64: the first then: mData._id is read and the upsert issued
WatchAddThen(h) ==
    /\ h \in handlers /\ h.stage = "then"
    /\ LET done(out) == /\ handlers' = handlers \ {h}
                        /\ settled' = settled \cup
                              {[n |-> h.n, p |-> h.p, tag |-> h.res.tag, out |-> out]}
           next == /\ handlers' = (handlers \ {h}) \cup {[h EXCEPT !.stage = "commit"]}
                   /\ settled' = settled
       IN  CASE h.res.tag = "record" ->
                  /\ upserts' = upserts \cup {[n |-> h.n, id |-> h.res.data._id]}
                  /\ \E ok \in BOOLEAN :
                        IF ok
                        THEN /\ UplFile' = findByIdAndUpdate(UplFile, h.res.data._id,
                                                             h.res.data)
                             /\ next
                        ELSE /\ UplFile' = UplFile
                             /\ done("upsert rejected")
             [] h.res.tag = "false" ->
                  /\ upserts' = upserts \cup {[n |-> h.n, id |-> "undefined"]}
                  /\ \E o \in UndefinedIdOutcomes :
                        CASE o = "nothing" -> /\ UplFile' = UplFile
                                              /\ next
                          [] o = "nulldoc" -> /\ UplFile' = findByIdAndUpdate(
                                                      UplFile, NullDoc._id, NullDoc)
                                              /\ next
                          [] OTHER -> /\ UplFile' = UplFile
                                      /\ done("upsert rejected")
             [] OTHER ->
                  \* undefined._id (or a rejection of processFile)
                  /\ done("TypeError")
                  /\ UNCHANGED <<UplFile, upserts>>
    /\ UNCHANGED <<fsVars, thumbs, UplFolder, log, scanVars, watching, events,
                   history, calls>>

\* lines 64-66: the second then: git.commitUploads("uploaded")
WatchAddCommit(h) ==
    /\ h \in handlers /\ h.stage = "commit"
    /\ history' = Append(history, [kind |-> "uploaded", p |-> h.p])
    /\ handlers' = handlers \ {h}
    /\ settled' = settled \cup
          {[n |-> h.n, p |-> h.p, tag |-> h.res.tag, out |-> "committed"]}
    /\ UNCHANGED <<fsVars, thumbs, UplFolder, UplFile, log, scanVars, watching,
                   events, upserts, calls>>

\* the "unlink" handler, also deleting the record of the path
WatchUnlinkReclaim(ev) ==
    /\ ev \in events /\ ev.kind = "unlink"
    /\ history' = Append(history, [kind |-> "deleted", p |-> ev.p])
    /\ events' = events \ {ev}
    /\ UplFile' = {r \in UplFile :
                     r._id # identify(parseUploadsRelPath(ev.p).folder,
                                      parseUploadsRelPath(ev.p).filename)}
    /\ UNCHANGED <<fsVars, thumbs, UplFolder, log, scanVars, watching,
                   handlers, settled, upserts, calls>>
\* lines 71-73: an "unlink" event: git.commitUploads("deleted")
WatchUnlink(ev) ==
    /\ ev \in events /\ ev.kind = "unlink"
    /\ history' = Append(history, [kind |-> "deleted", p |-> ev.p])
    /\ events' = events \ {ev}
    /\ UNCHANGED <<fsVars, thumbs, UplFolder, UplFile, log, scanVars, watching,
                   handlers, settled, upserts, calls>>

----------------------------------------------------------------------------
(* The environment: changes to the uploads tree, which chokidar reports    *)
(* once watch() has subscribed (ignoreInitial, depth 1)                    *)

Alive == pc \notin {"rejected", "failed"}

Emit(kind, s) ==
    events' = IF watching
              THEN events \cup {[n |-> fsOps + 1, kind |-> kind,
                                 p |-> RelPath(s[1], s[2])]}
              ELSE events

\* what the environment writes into the tree while the agent runs
NewContents == {PngB, Special}

\* an entry appears in the root or in a first-level directory
FsCreate(s, c) ==
    /\ Alive /\ fsOps < MaxFsOps
    /\ fs[s] = NoFile
    /\ IF s[1] = "" THEN TRUE ELSE dirs[s[1]] = "ok"
    /\ fs' = [fs EXCEPT ![s] = c]
    /\ fsOps' = fsOps + 1
    /\ Emit("add", s)
    /\ UNCHANGED <<dirs, rootOk, thumbs, UplFolder, UplFile, log, scanVars,
                   watching, handlers, history, settled, upserts, calls>>

\* an entry is removed
FsRemove(s) ==
    /\ Alive /\ fsOps < MaxFsOps
    /\ fs[s] # NoFile
    /\ fs' = [fs EXCEPT ![s] = NoFile]
    /\ fsOps' = fsOps + 1
    /\ Emit("unlink", s)
    /\ UNCHANGED <<dirs, rootOk, thumbs, UplFolder, UplFile, log, scanVars,
                   watching, handlers, history, settled, upserts, calls>>

\* a first-level directory is created (chokidar reports "addDir", which has
\* no handler)
FsMkdir(d) ==
    /\ Alive /\ fsOps < MaxFsOps
    /\ dirs[d] = "none"
    /\ dirs' = [dirs EXCEPT ![d] = "ok"]
    /\ fsOps' = fsOps + 1
    /\ UNCHANGED <<fs, rootOk, thumbs, UplFolder, UplFile, log, scanVars,
                   watchVars, calls>>

----------------------------------------------------------------------------
(* The agent *)

Next ==
    \/ ScanReadRoot
    \/ ScanStatRoot
    \/ ScanRemoveFolders
    \/ ScanInsertFolders
    \/ \E f \in Folders : ScanListFolder(f)
    \/ \E f \in Folders : \E e \in Names \cup DirNames : ScanProcessFile(f, e)
    \/ ScanTraverseSettle
    \/ ScanRemoveFiles
    \/ ScanInsertFiles
    \/ ScanWatch
    \/ \E ev \in events : WatchAdd(ev)
    \/ \E h \in handlers : WatchAddThen(h)
    \/ \E h \in handlers : WatchAddCommit(h)
    \/ \E ev \in events : WatchUnlink(ev)
    \/ \E s \in Slots : \E c \in NewContents : FsCreate(s, c)
    \/ \E s \in Slots : FsRemove(s)
    \/ \E d \in DirNames : FsMkdir(d)

Spec == Init /\ [][Next]_vars

----------------------------------------------------------------------------
(* The scan alone, over every small tree, with entries vanishing under it *)

NextScan ==
    \/ ScanReadRoot
    \/ ScanStatRoot
    \/ ScanRemoveFolders
    \/ ScanInsertFolders
    \/ \E f \in Folders : ScanListFolder(f)
    \/ \E f \in Folders : \E e \in Names \cup DirNames : ScanProcessFile(f, e)
    \/ ScanTraverseSettle
    \/ ScanRemoveFiles
    \/ ScanInsertFiles
    \/ ScanWatch
    \/ \E s \in Slots : FsRemove(s)

SpecScan == InitScan /\ [][NextScan]_vars

----------------------------------------------------------------------------
(* The processor alone: processFile called directly, several times, on one *)
(* entry of any type, MIME type and size, which may change between calls,  *)
(* and on the first-level directory "a"                                    *)

Magics == {"image/png", "image/jpeg", "image/gif", "image/bmp", "image/tiff",
           "application/pdf", "none"}
Sizes == {2048, MaxImageSize - 1, MaxImageSize}

\* the entries processFile is called on
PFContents ==
    {File(m, z, h[1], h[2]) :
        m \in Magics, z \in Sizes, h \in {<<TRUE, TRUE>>, <<TRUE, FALSE>>, <<FALSE, FALSE>>}}
    \cup {Special}

\* what the file is replaced by between two calls
PFNewContents == {BigPng}

InitPF ==
    /\ rootOk = TRUE
    /\ dirs = [d \in DirNames |-> IF d = "a" THEN "ok" ELSE "none"]
    /\ \E n \in Names : \E c \in PFContents :
          fs = [s \in Slots |-> IF s = <<"", n>> THEN c ELSE NoFile]
    /\ UplFolder = {} /\ UplFile = {}
    /\ pc = "harness"
    /\ AgentIdle

\* one call of processFile(fldName, f), recorded with the entry it was made
\* on, the number of changes of the tree before it, the value it returned,
\* whether it invoked generateThumbnail and whether it changed the cache
PFCall(fldName, f) ==
    /\ pc = "harness"
    /\ Len(calls) < MaxCalls
    /\ \E wr \in WriteOutcomes :
          LET r == processFile(fldName, f, wr) IN
              /\ thumbs' = r.thumbs
              /\ log' = log \cup r.log
              /\ calls' = Append(calls,
                     [fld |-> fldName, f |-> f, file |-> statAsync(fldName, f),
                      ops |-> fsOps, res |-> r.res, gen |-> r.gen,
                      wrote |-> r.thumbs # thumbs])
    /\ UNCHANGED <<fsVars, UplFolder, UplFile, scanVars, watchVars>>

NextPF ==
    \/ \E n \in Names \cup {"a"} : PFCall("", n)
    \/ \E n \in Names : \E c \in PFNewContents : FsCreate(<<"", n>>, c)
    \/ \E n \in Names : FsRemove(<<"", n>>)

SpecPF == InitPF /\ [][NextPF]_vars

----------------------------------------------------------------------------
(* Properties of initialScan (checked under SpecScan) *)

\* the scan has finished its catalog work: the FileRecord collection has been
\* replaced and watch() is about to be, or has been, called
ScanReplaced == pc \in {"startWatch", "done"}

NoListingFailed == \A f \in folderNames : fldTask[f] # "rejected"
NoFileFailed == \A sr \in scanRes : sr.res.tag # "undefined"

\* the documents of a collection stored under an identifier
WithId(coll, id) == {r \in coll : r._id = id}

\* C1: after a scan in which every listing, every processFile call and every
\* catalog call succeeded, the Folder collection holds exactly the document
\* ("f:" + name, name) of the root (name "") and of each first-level
\* directory, and the FileRecord collection holds exactly one document per
\* regular file the scan found, linked to "f:" + its folder, and nothing
\* else: no document of an earlier run is left.
ScanReplacesCatalog ==
    (ScanReplaced /\ NoListingFailed /\ NoFileFailed) =>
        /\ UplFolder = {[_id |-> "f:" \o d, name |-> d] :
                           d \in {""} \cup {e \in DirNames : dirs[e] # "none"}}
        /\ \A sr \in scanRes :
              sr.res.tag = "record" =>
                 /\ Cardinality(WithId(UplFile, identify(sr.fld, sr.f))) = 1
                 /\ \A r \in WithId(UplFile, identify(sr.fld, sr.f)) :
                       r.folder = "f:" \o sr.fld /\ r.filename = sr.f
        /\ \A r \in UplFile :
              \E sr \in scanRes : /\ sr.res.tag = "record"
                                  /\ r._id = identify(sr.fld, sr.f)
        /\ OldFile \notin UplFile /\ OldFolder \notin UplFolder
        /\ fsOps = 0 =>
              {r._id : r \in UplFile} =
                 {identify(s[1], s[2]) : s \in {t \in Slots : fs[t].type = "file"}}

\* C1 witness: the scan of the tree {"", "a", "b"} with one file in "" and one
\* in "a" has replaced the catalog: three folders, two files
ScanReplacesCatalogWitness ==
    /\ ScanReplaced /\ NoListingFailed /\ NoFileFailed /\ fsOps = 0
    /\ Cardinality(UplFolder) = 3
    /\ Cardinality(UplFile) = 2
    /\ \E r \in UplFile : r.folder = "f:"
    /\ \E r \in UplFile : r.folder = "f:a"

\* C2: in a scan whose listings and catalog calls succeeded, a file whose
\* processing failed has not aborted the batch: no processFile call has
\* rejected, the failed file has no document, and the record of every other
\* file processed by the scan, in the same folder or another, is in the
\* FileRecord collection.
FileFailureIsLocal ==
    /\ \A sr \in scanRes : sr.res.tag # "rejected"
    /\ (ScanReplaced /\ NoListingFailed) =>
          /\ pending = {}
          /\ \A sr \in scanRes :
                /\ sr.res.tag = "undefined" =>
                      WithId(UplFile, identify(sr.fld, sr.f)) = {}
                /\ sr.res.tag = "record" => sr.res.data \in UplFile

\* C2 witness: a file failed and the record of its sibling was inserted
FileFailureIsLocalWitness ==
    /\ ScanReplaced /\ NoListingFailed
    /\ \E sr \in scanRes, sb \in scanRes :
          /\ sr.res.tag = "undefined"
          /\ sb.res.tag = "record" /\ sb.fld = sr.fld
          /\ sb.res.data \in UplFile

\* C3: when the listing of a folder candidate has failed, the failure has
\* been logged and, once the bulk insert has run, every file of another
\* folder that the scan processed successfully has its document.
ListingFailureIsLocal ==
    (ScanReplaced /\ ~NoListingFailed) =>
        /\ "Error during initial scan" \in log
        /\ \A sr \in scanRes :
              (sr.res.tag = "record" /\ fldTask[sr.fld] # "rejected")
                 => sr.res.data \in UplFile

----------------------------------------------------------------------------
(* Properties of the watcher (checked under Spec) *)

\* the identifier processFile gives the entry at a reported path
IdOfPath(p) == identify(parseUploadsRelPath(p).folder, parseUploadsRelPath(p).filename)

\* this step is the first then of handler h, and its upsert resolved
Upserted(h) ==
    /\ h \in handlers /\ h.stage = "then"
    /\ h \notin handlers'
    /\ [h EXCEPT !.stage = "commit"] \in handlers'

\* this step is the first then of handler h
ThenStep(h) ==
    /\ h \in handlers /\ h.stage = "then"
    /\ h \notin handlers'

\* C4: the FileRecord collection never holds two documents under one
\* identifier; the upsert of an "add" whose processing yielded a record adds
\* exactly the document identify(folder, filename) when the path had none,
\* and replaces the document of the path, adding none, when it had one.
AddUpsertsOneRecord ==
    /\ [](\A r1 \in UplFile, r2 \in UplFile : r1._id = r2._id => r1 = r2)
    /\ [][\A h \in handlers :
            (Upserted(h) /\ h.res.tag = "record") =>
               /\ h.res.data._id = IdOfPath(h.p)
               /\ WithId(UplFile', IdOfPath(h.p)) = {h.res.data}
               /\ {r \in UplFile' : r._id # IdOfPath(h.p)}
                     = {r \in UplFile : r._id # IdOfPath(h.p)}
               /\ Cardinality(UplFile') =
                     IF WithId(UplFile, IdOfPath(h.p)) = {}
                     THEN Cardinality(UplFile) + 1 ELSE Cardinality(UplFile)]_vars

\* C4 witness: the scan recorded x.png, the file was replaced by one of
\* another size, and the "add" handler has overwritten the document
AddUpsertsOneRecordWitness ==
    /\ \E sr \in scanRes : /\ sr.fld = "" /\ sr.f = "x.png"
                           /\ sr.res.tag = "record"
                           /\ sr.res.data.filesize = PngA.size
    /\ \E st \in settled : /\ st.p = <<"x.png">> /\ st.out = "committed"
                           /\ st.tag = "record"
    /\ \E r \in UplFile : r._id = identify("", "x.png") /\ r.filesize = PngB.size

\* C5: every "add" handler whose chain has settled, other than by a rejection
\* of the upsert, has emitted the "uploaded" history event: also when
\* processFile returned false or a failed result.
AddAlwaysCommits ==
    \A st \in settled : st.out # "upsert rejected" => st.out = "committed"

\* C6: the first then of an "add" handler whose processFile call returned
\* false or a failed result issues no upsert and leaves the FileRecord and
\* Folder collections as they are.
AddWithoutRecordIssuesNothing ==
    [][\A h \in handlers :
         (ThenStep(h) /\ h.res.tag # "record") =>
            /\ upserts' = upserts
            /\ UplFile' = UplFile /\ UplFolder' = UplFolder]_vars

\* this step handles the "unlink" event ev
UnlinkStep(ev) == ev \in events /\ ev.kind = "unlink" /\ ev \notin events'

\* C7: handling an "unlink" event for path p appends exactly one "deleted"
\* history event carrying p and changes neither the FileRecord collection,
\* nor the Folder collection, nor the thumbnail cache.
UnlinkOnlyCommits ==
    [][\A ev \in events :
         UnlinkStep(ev) =>
            /\ history' = Append(history, [kind |-> "deleted", p |-> ev.p])
            /\ UplFile' = UplFile /\ UplFolder' = UplFolder
            /\ thumbs' = thumbs]_vars

\* C7 witness: the "deleted" event of x.png was emitted; the document and the
\* thumbnail of the removed file are still there
UnlinkOnlyCommitsWitness ==
    /\ \E i \in 1..Len(history) :
          history[i] = [kind |-> "deleted", p |-> <<"x.png">>]
    /\ fs[<<"", "x.png">>] = NoFile
    /\ WithId(UplFile, identify("", "x.png")) # {}
    /\ thumbs[identify("", "x.png")].st = "whole"

----------------------------------------------------------------------------
(* Properties of processFile (checked under SpecPF) *)

IsImageRecord(res) == res.tag = "record" /\ res.data.category = "image"

\* calls i and i + 1 were made on the same path with no change of the tree
\* between them
Consecutive(i) ==
    /\ i \in 1..(Len(calls) - 1)
    /\ calls[i + 1].fld = calls[i].fld /\ calls[i + 1].f = calls[i].f
    /\ calls[i + 1].ops = calls[i].ops

\* C8: when processFile has returned the record of a qualifying image, the
\* next call on the same unchanged file returns the same record, does not
\* invoke generateThumbnail (so the two calls invoke it at most once) and
\* leaves the thumbnail cache as it is, the thumbnail being there.
SecondCallReusesThumbnail ==
    \A i \in 1..Len(calls) :
       (Consecutive(i) /\ IsImageRecord(calls[i].res)) =>
          /\ calls[i + 1].res = calls[i].res
          /\ ~calls[i + 1].gen
          /\ ~calls[i + 1].wrote
          /\ thumbs[identify(calls[i].fld, calls[i].f)].st # "absent"

\* C8 witness: the first call derived the thumbnail, the second returned the
\* same image record without deriving it
SecondCallReusesThumbnailWitness ==
    /\ Len(calls) >= 2
    /\ Consecutive(1)
    /\ IsImageRecord(calls[1].res) /\ calls[1].gen
    /\ calls[2].res = calls[1].res /\ ~calls[2].gen

FailedDerivationLeavesNoThumbnail ==
    \A i \in 1..Len(calls) :
       (Consecutive(i) /\ calls[i].gen /\ calls[i].res.tag # "record") =>
          /\ calls[i].res.tag = "undefined"
          /\ IsImageRecord(calls[i + 1].res) => calls[i + 1].gen

----------------------------------------------------------------------------
(* Properties of the agent while the tree changes (checked under Spec) *)

\* the slot of the entry at a reported path
SlotOfPath(p) == <<parseUploadsRelPath(p).folder, parseUploadsRelPath(p).filename>>

\* C11: a thumbnail in the cache is not stale: when an "add" handler has
\* processed the image at a path and the file still has the content it
\* processed (the size its record reports), the thumbnail under the path's
\* identifier was derived from that content.
ThumbnailNeverStale ==
    \A h \in handlers :
       (/\ IsImageRecord(h.res)
        /\ fs[SlotOfPath(h.p)].type = "file"
        /\ fs[SlotOfPath(h.p)].size = h.res.data.filesize
        /\ thumbs[IdOfPath(h.p)].st # "absent")
          => thumbs[IdOfPath(h.p)].src = fs[SlotOfPath(h.p)]

\* the agent has nothing left to do: the scan has handed over to the watcher,
\* every mapper of the scan has finished, every reported event has been
\* handled and every handler has settled
Quiescent ==
    /\ pc = "done" /\ watching
    /\ pending = {} /\ \A f \in Folders : fldTask[f] \in {"none", "done"}
    /\ events = {} /\ handlers = {}

\* no processFile call on the entry of slot s has failed and no upsert of its
\* record was rejected
ProcessingSucceeded(s) ==
    /\ \A sr \in scanRes : (sr.fld = s[1] /\ sr.f = s[2]) => sr.res.tag = "record"
    /\ \A st \in settled : st.p = RelPath(s[1], s[2]) => st.out = "committed"

\* C12: no file is lost: once the agent has nothing left to do, every regular
\* file that is in the root or in a first-level directory, and whose
\* processing has not failed, has its document in the FileRecord collection,
\* whenever it was created since the scan started.
NoFileLost ==
    Quiescent =>
       \A s \in Slots :
          (fs[s].type = "file" /\ FolderExists(s[1]) /\ ProcessingSucceeded(s))
             => WithId(UplFile, identify(s[1], s[2])) # {}

----------------------------------------------------------------------------
(* Properties of the failures of initialScan (checked under SpecScan) *)

\* C13: when the listing of the uploads root has failed, the scan has logged
\* the failure, the watcher is not started, and the Folder and FileRecord
\* collections are as they were.
RootListingFailureIsLogged ==
    (pc = "rejected") =>
       /\ "Failed during initial scan of uploads" \in log
       /\ ~watching
       /\ UplFolder = {OldFolder} /\ UplFile = {OldFile}

----------------------------------------------------------------------------
(* Properties of the failures of the watcher (checked under Spec) *)

\* this step is the first then of handler h, whose processFile call yielded a
\* record, and the upsert of the record was rejected
UpsertRejected(h) ==
    /\ ThenStep(h) /\ h.res.tag = "record"
    /\ \E st \in settled' \ settled : st.n = h.n /\ st.out = "upsert rejected"

\* C14: when the upsert of an "add" handler fails, the handler logs the
\* failure: the step in which the upsert is rejected gives a message to
\* winston.error.
UpsertFailureIsLogged ==
    [][\A h \in handlers : UpsertRejected(h) => log' # log]_vars

----------------------------------------------------------------------------
(* Properties of processFile on other entries than files (checked under    *)
(* SpecPF)                                                                 *)

\* C15: a call of processFile on an entry that exists and is not a regular
\* file (a directory, a special file) returns false: no record, no failed
\* result and no rejection; it does not derive a thumbnail and leaves the
\* thumbnail cache as it is.
NonFileIsSkipped ==
    \A i \in 1..Len(calls) :
       calls[i].file.type \in {"dir", "other"} =>
          /\ calls[i].res = [tag |-> "false"]
          /\ ~calls[i].gen /\ ~calls[i].wrote

\* C15 witness: processFile was called on the directory "a" and returned false
NonFileIsSkippedWitness ==
    \E i \in 1..Len(calls) :
       /\ calls[i].fld = "" /\ calls[i].f = "a"
       /\ calls[i].file = DirEntry
       /\ calls[i].res = [tag |-> "false"]

----------------------------------------------------------------------------
(* Properties of the order of initialScan's steps (checked under SpecScan  *)
(* and, where the watcher takes part, under Spec)                          *)

\* this step issues the delete-all or the bulk insert of the FileRecord
\* collection
FileReplaceStep == pc \in {"removeFiles", "insertFiles"} /\ pc' # pc

\* C16: when the delete-all or the bulk insert of the FileRecord collection
\* is issued, no processFile call started by the scan is still in flight, a
\* scan in which a folder listing failed included.
BulkReplaceAfterAllSettled ==
    [][FileReplaceStep => pending = {}]_vars

\* C17: the watcher runs only once the scan has replaced the FileRecord
\* collection: it is subscribed by the step that follows the replacement,
\* when no document of the earlier run is left and every record of the scan
\* is in the collection; before that no event is reported, no handler runs
\* and no upsert is issued (none between the delete-all and the insert-all
\* in particular); a scan that failed in the replacement of the Folder or
\* of the FileRecord collection stays failed and never subscribes it.
WatchAfterFileReplace ==
    /\ [](watching => pc = "done")
    /\ [](pc # "done" => (events = {} /\ handlers = {} /\ upserts = {}))
    /\ [][(~watching /\ watching') =>
            /\ pc = "startWatch"
            /\ OldFile \notin UplFile
            /\ allFiles \subseteq UplFile]_vars
    /\ [][pc = "failed" => pc' = "failed"]_vars

\* C17 witness: the watcher, subscribed after the replacement, has issued an
\* upsert; the records of the scan are in the collection
WatchAfterFileReplaceWitness ==
    /\ watching /\ pc = "done"
    /\ upserts # {}
    /\ OldFile \notin UplFile
    /\ \E r \in allFiles : r \in UplFile

\* the traversal has begun: the mapper of a folder has started, or a
\* processFile call has been made
TraversalStarted ==
    \/ \E f \in Folders : fldTask[f] # "none"
    \/ pending # {} \/ scanRes # {}

\* C18: no folder is listed and no processFile call is made before the
\* candidates are enumerated and the Folder collection replaced: while the
\* scan is at the enumeration or at the delete-all or insert-all of the
\* folders the traversal has not begun, and once it has begun the Folder
\* collection holds exactly the documents of the candidates. When the
\* replacement of the Folder collection fails the traversal never begins
\* and the FileRecord collection stays as it was.
FoldersBeforeTraversal ==
    /\ [](pc \in {"init", "statRoot", "removeFolders", "insertFolders"}
             => ~TraversalStarted)
    /\ [](TraversalStarted =>
             UplFolder = {[_id |-> "f:" \o f, name |-> f] : f \in folderNames})
    /\ [][(pc \in {"removeFolders", "insertFolders"} /\ pc' = "failed")
             => ~TraversalStarted']_vars
    /\ [][(pc = "failed" /\ ~TraversalStarted) => ~TraversalStarted']_vars
    /\ []((pc = "failed" /\ ~TraversalStarted)
             => (UplFile = {OldFile} /\ allFiles = {} /\ ~watching))

\* C18 witness: processFile has been called on an entry of directory "a" and
\* the Folder collection holds the root, "a" and "b"
FoldersBeforeTraversalWitness ==
    /\ \E sr \in scanRes : sr.fld = "a"
    /\ UplFolder = {[_id |-> "f:" \o f, name |-> f] : f \in {"", "a", "b"}}

----------------------------------------------------------------------------
(* Invariants of the catalog and of the cache (checked under Spec) *)

\* C19: once the scan has completed, every document of the FileRecord
\* collection that names a folder names one that has its document in the
\* Folder collection, whatever "add" and "unlink" events the watcher has
\* handled since.
FileRecordsReferToFolders ==
    (pc = "done") =>
       \A r \in UplFile :
          "folder" \in DOMAIN r => \E d \in UplFolder : d._id = r.folder

\* the value is a binary record, or false (the entry was skipped)
IsBinaryOrSkip(res) ==
    \/ res.tag = "false"
    \/ res.tag = "record" /\ res.data.category = "binary"

HasThumbnail(id) == thumbs[id].st # "absent"

\* C20: whenever processFile has returned an image record, to the scan or to
\* an "add" handler, a thumbnail is in the cache under the record's
\* identifier; no step removes or replaces a thumbnail that is there; so
\* every image document of the FileRecord collection has a thumbnail under
\* its identifier; and a processFile call that returns a binary record or
\* false leaves the cache as it is.
ImageRecordHasThumbnail ==
    /\ [](\A sr \in scanRes :
             IsImageRecord(sr.res) => HasThumbnail(identify(sr.fld, sr.f)))
    /\ [](\A h \in handlers : IsImageRecord(h.res) => HasThumbnail(IdOfPath(h.p)))
    /\ [](\A r \in UplFile :
             ("category" \in DOMAIN r /\ r.category = "image") => HasThumbnail(r._id))
    /\ [][\A i \in ThumbIds : HasThumbnail(i) => thumbs'[i] = thumbs[i]]_vars
    /\ [][(\E sr \in scanRes' \ scanRes : IsBinaryOrSkip(sr.res))
             => thumbs' = thumbs]_vars
    /\ [][(\E h \in handlers' \ handlers : h.stage = "then" /\ IsBinaryOrSkip(h.res))
             => thumbs' = thumbs]_vars

\* C20 witness: the catalog holds the image document of x.png, whose
\* thumbnail is in the cache, and the binary document of a/y.txt, which has
\* none; an "add" handler was given false for a special file, which has none
\* either
ImageRecordHasThumbnailWitness ==
    /\ \E r \in UplFile : /\ r._id = identify("", "x.png")
                           /\ r.category = "image"
                           /\ HasThumbnail(r._id)
    /\ \E r \in UplFile : /\ r._id = identify("a", "y.txt")
                           /\ r.category = "binary"
                           /\ ~HasThumbnail(r._id)
    /\ \E st \in settled : st.tag = "false" /\ ~HasThumbnail(IdOfPath(st.p))

====
